---- MODULE Spec2Model ----
(***************************************************************************)
(* A model of gscene's scene lifecycle engine: the Manager, the Scene      *)
(* with its update pass (controller, objects, drawer, flush), AddObject,   *)
(* ChangeScene and the stopUpdate panic that aborts a pass.                *)
(*                                                                         *)
(* User code (the host between frames and the Controller / Object /        *)
(* Drawer callbacks) is nondeterministic: at any point where it is in      *)
(* control it may call AddObject, ChangeScene, flip a disposed flag, raise *)
(* a failure, or return.  Callbacks nest, so the model keeps a call stack. *)
(***************************************************************************)
EXTENDS Integers, Sequences, FiniteSets, TLC

\* ------------------------------------------------------------------ bounds
MaxObjects == 3
MaxScenes == 3
MaxPasses == 3
MaxGraphics == 2
MaxDraws == 2
MaxTime == 96

\* --------------------------------------------------------------- constants
Nil == 0
stopUpdate == "stopUpdate"
Failures == {"E1"}
RuntimeError == "nil pointer dereference"
NoPanic == "none"

Objects == 1..MaxObjects
GraphicsIds == 1..MaxGraphics
Layers == {0, 1}

Range(s) == {s[k] : k \in 1..Len(s)}
NoDup(s) == \A p, q \in 1..Len(s) : p # q => s[p] # s[q]
IndexOf(s, x) == CHOOSE k \in 0..Len(s) : (k # 0 /\ s[k] = x) \/ (k = 0 /\ x \notin Range(s))
Reverse(s) == [k \in 1..Len(s) |-> s[Len(s) + 1 - k]]

VARIABLES
    disposed,       \* Manager.disposed
    root,           \* the RootScene, a scene that draws its graphics itself
    currentScene,   \* Manager.currentScene: Nil or an index into scenes
    scenes,         \* the Scene structs allocated so far, in allocation order
    isDisposed,     \* what each object's IsDisposed() reports
    nObjects,       \* objects handed to AddObject so far (ids in call order)
    stack,          \* call stack of the library/user frames in progress
    loop,           \* locals of the running updateWithDeltaImpl
    hostSaw,        \* the panic value that reached the host driver, or NoPanic
    passNo,         \* history: number of update passes started
    passScene,      \* history: scene of the last pass started
    passStart,      \* history: active list when the last pass started
    log,            \* history: callbacks/steps of the last pass, in order
    skipped,        \* history: objects that read disposed at their turn in the last pass
    outcome,        \* history: how the last pass ended
    cs,             \* history: ChangeScene calls made inside the last pass
    initDone,       \* history: controllers whose Init has returned
    raised,         \* history: the failure a callback raised, or NoPanic
    age,            \* history: per object, when AddObject was called relative to
                    \* the passes of its scene, or that the loop dropped it
    gDisposed,      \* what each graphics' IsDisposed() reports
    nGraphics,      \* graphics handed to AddGraphics so far (ids in call order)
    dloop,          \* locals of the running simpleDrawer.Draw
    drawNo,         \* history: number of draw passes started
    drawn,          \* history: the graphics whose Draw the last draw pass called
    dhist,          \* history: what the last draw pass found when it started
    layerOf,        \* history: the layer index each graphics was added with
    frame,          \* history: the last of Update/Draw called since the last ChangeScene
    limiter,        \* the FrameLimiter struct
    now,            \* the wall clock read by time.Now()
    lastDo,         \* history: what the last FrameLimiter.Do call did
    run             \* history: the Do calls and draws of the limiter so far

vars == <<disposed, root, currentScene, scenes, isDisposed, nObjects, stack, loop, hostSaw,
          passNo, passScene, passStart, log, skipped, outcome, cs,
          initDone, raised, age, gDisposed, nGraphics, dloop, drawNo, drawn,
          dhist, layerOf, frame, limiter, now, lastDo, run>>

drawVars == <<gDisposed, nGraphics, dloop, drawNo, drawn, dhist, layerOf>>
limVars == <<limiter, now, lastDo, run>>

\* ---------------------------------------------------------------- drawers
NilDrawer == [kind |-> "nil", graphics |-> <<>>, needFilter |-> FALSE]
CustomDrawer == [kind |-> "custom", graphics |-> <<>>, needFilter |-> FALSE]

newSimpleDrawer == [kind |-> "simple", graphics |-> <<>>, needFilter |-> FALSE]

\* simpleDrawer.Update marks the list for filtering.
simpleDrawerUpdateNoMark(d) == d
simpleDrawerUpdate(d) == [d EXCEPT !.needFilter = TRUE]

\* simpleDrawer.filter: the graphics that do not read disposed, in order.
LiveGraphics(g) == ~gDisposed[g]
filter(d) == [d EXCEPT !.graphics = SelectSeq(@, LiveGraphics)]

\* simpleDrawer.Draw up to its loop: filter if marked, clear the mark.
drawAlwaysFilters(d) == [filter(d) EXCEPT !.needFilter = FALSE]
simpleDrawerDraw(d) ==
    [(IF d.needFilter THEN filter(d) ELSE d) EXCEPT !.needFilter = FALSE]

\* simpleDrawer.AddGraphics: the layer index is not used.
addGraphicsByLayer(d, g, layer) ==
    [d EXCEPT !.graphics = IF layer = 0 THEN <<g>> \o @ ELSE Append(@, g),
              !.needFilter = TRUE]
simpleAddGraphics(d, g, layer) ==
    [d EXCEPT !.graphics = Append(@, g), !.needFilter = TRUE]

\* ------------------------------------------------------------------ Scene
newScene(c) ==
    [controllerObject |-> c,
     drawer           |-> NilDrawer,
     objects          |-> <<>>,
     addedObjects     |-> <<>>,
     insideUpdate     |-> FALSE]

\* Manager.ChangeScene: m.currentScene = newScene(c), before c.Init is called.
installAfterInit(prev, new) == prev
installScene(prev, new) == new

\* Scene.AddObject, the statement before o.Init(s) is called.
AddObjectNoAppend(sc, o) == sc
AddObjectToActive(sc, o) == [sc EXCEPT !.objects = Append(@, o)]
AddObject(sc, o) == [sc EXCEPT !.addedObjects = Append(@, o)]

\* Scene.dispose: the fields it releases, and whether it then panics.
disposeNeverPanics(sc) == FALSE
disposePanics(sc) == sc.insideUpdate

disposeNothing(sc) == sc
disposeKeepsDrawer(sc) ==
    [sc EXCEPT !.objects = <<>>,
               !.addedObjects = <<>>,
               !.controllerObject = Nil,
               !.insideUpdate = IF disposePanics(sc) THEN FALSE ELSE @]
dispose(sc) ==
    [sc EXCEPT !.objects = <<>>,
               !.addedObjects = <<>>,
               !.controllerObject = Nil,
               !.drawer = NilDrawer,
               !.insideUpdate = IF disposePanics(sc) THEN FALSE ELSE @]

\* The deferred function of updateWithDelta: the panic value that goes on
\* propagating to the caller of updateWithDelta (NoPanic when absorbed).
recoverNothing(rv) == rv
recoverEverything(rv) == NoPanic
recovered(rv) == IF rv = stopUpdate THEN NoPanic ELSE rv

\* updateWithDeltaImpl: the slice the loop ranges over.
rangeReversed(sc) == Reverse(sc.objects)
rangeObjects(sc) == sc.objects

\* updateWithDeltaImpl: whether the loop skips o.
neverSkip(o) == FALSE
skipObject(o) == isDisposed[o]

\* updateWithDeltaImpl: liveObjects = append(liveObjects, o), n survivors so far.
\* liveObjects shares its backing array with s.objects.
appendNothing(arr, n, o) == arr
appendLive(arr, n, o) == [arr EXCEPT ![n + 1] = o]

\* updateWithDeltaImpl: the flush of the added objects.
flushKeepsBuffer(sc) == [sc EXCEPT !.objects = sc.objects \o sc.addedObjects]
flushInFront(sc) ==
    [sc EXCEPT !.objects = sc.addedObjects \o sc.objects, !.addedObjects = <<>>]
flushDropsAdded(sc) == [sc EXCEPT !.addedObjects = <<>>]
flushAdded(sc) ==
    [sc EXCEPT !.objects = sc.objects \o sc.addedObjects, !.addedObjects = <<>>]

\* ------------------------------------------------------------- call stack
CallbackKinds == {"Controller.Init", "Controller.Update", "Object.Init",
                  "Object.Update", "Drawer.Update", "Graphics.Draw", "Drawer.Draw"}

Frame(kind, scene, who, prev) ==
    [kind |-> kind, scene |-> scene, who |-> who, prev |-> prev]

Top == stack[Len(stack)]
Pop == SubSeq(stack, 1, Len(stack) - 1)

Alive == hostSaw = NoPanic
AtHost == Alive /\ stack = <<>>
InCallback == stack # <<>> /\ Top.kind \in CallbackKinds
InUserCode == AtHost \/ InCallback
InsidePass == \E k \in 1..Len(stack) : stack[k].kind = "updateWithDelta"

\* The scene the running user code holds: the host reaches it through
\* Manager.CurrentScene(), a callback got it as its Init argument.
CtxScene == IF stack = <<>> THEN currentScene ELSE Top.scene

Ev(e, id) == [ev |-> e, id |-> id]
NoLoop == [i |-> 0, n |-> 0, arr |-> <<>>, pc |-> "none"]
NoCs == [called |-> FALSE, idx |-> 0, from |-> "none", root |-> "none", ctrls |-> {}]

\* A panic with value rv raised in the frame on top of the stack.  The only
\* deferred function on any stack is updateWithDelta's; every frame is
\* unwound and the host sees what that function lets through.
Panic(rv) ==
    /\ stack' = <<>>
    /\ loop' = NoLoop
    /\ hostSaw' = IF InsidePass THEN recovered(rv) ELSE rv
    /\ outcome' = IF InsidePass
                  THEN (IF rv = stopUpdate THEN "aborted" ELSE "failed")
                  ELSE outcome

NoDLoop == [i |-> 0, arr |-> <<>>, pc |-> "none"]
NoDHist == [disposed |-> {}, list |-> <<>>, afterUpdate |-> FALSE, scene |-> 0]

\* ----------------------------------------------------------- FrameLimiter
\* Durations and clock readings are counted in nanoseconds, as time.Duration
\* counts them.
Second == 1000000000
Millisecond == Second \div 1000
FpsValues == {0, 30, 60}
Steps == {8 * Millisecond, 16 * Millisecond, 40 * Millisecond}

\* The zero time.Time of a fresh limiter.  t.Sub of it saturates at the
\* largest Duration; MaxDuration stands for it, and like it is above every
\* draw delay, which is all that min(delta, drawDelay) asks of it.
ZeroTime == -1
MaxDuration == 2 * Second
Sub(t, p) == IF p = ZeroTime THEN MaxDuration ELSE t - p
Min(a, b) == IF a < b THEN a ELSE b

SetFPSAlwaysCapped(l, fps) ==
    [l EXCEPT !.fps = fps, !.drawDelay = Second \div (fps + 1)]
SetFPS(l, fps) ==
    [l EXCEPT !.fps = fps,
              !.drawDelay = IF fps = 0 THEN 0 ELSE Second \div (fps + 1)]

NewFrameLimiter(fps) ==
    SetFPS([fps |-> 0, dirty |-> TRUE, timeAccum |-> 0, drawDelay |-> 0,
            prevDrawTime |-> ZeroTime], fps)

\* FrameLimiter.Do: the early return, the accumulation of the time since
\* the previous call, the frame skip and the payment for a drawn frame.
doIgnoresDirty(l) == FALSE
doReturnsEarly(l) == ~l.dirty
doAccumulateUncapped(l, t) ==
    [l EXCEPT !.prevDrawTime = t,
              !.timeAccum = @ + Sub(t, l.prevDrawTime)]
doAccumulate(l, t) ==
    [l EXCEPT !.prevDrawTime = t,
              !.timeAccum = @ + Min(Sub(t, l.prevDrawTime), l.drawDelay)]
doNeverSkips(l) == FALSE
doSkipsFrame(l) == l.timeAccum < l.drawDelay
doSpendsAll(l) == [l EXCEPT !.timeAccum = 0]
doSpend(l) == [l EXCEPT !.timeAccum = @ - l.drawDelay]

\* No FrameLimiter has been constructed.
NoLimiter == [fps |-> 0, dirty |-> FALSE, timeAccum |-> 0, drawDelay |-> 0,
              prevDrawTime |-> 0]
NoDo == [called |-> FALSE]
DoResult(before, drew, cleared) ==
    [called |-> TRUE, before |-> before, drew |-> drew, cleared |-> cleared]

\* The history of a limiter.  fpsFixed: the fps is still the one given at
\* construction.  steady: moreover it is not zero, dirty has been true at
\* every moment and
\* every two consecutive Do calls were at most one draw delay apart;
\* paced: they were exactly one Pace apart.  For as long as the run is
\* steady the history also tells when Do was first and last called, how
\* many times the draw function ran, when it last ran and how long after
\* the run before.
Pace == 8 * Millisecond
NoRun == [fpsFixed |-> TRUE, steady |-> TRUE, paced |-> TRUE,
          first |-> ZeroTime, lastCall |-> ZeroTime, draws |-> 0,
          lastDraw |-> ZeroTime, drawGap |-> ZeroTime]
Unsteady(fpsFixed) ==
    [NoRun EXCEPT !.fpsFixed = fpsFixed, !.steady = FALSE, !.paced = FALSE]
RecordCall(r, l, t) ==
    IF /\ r.steady
       /\ l.drawDelay # 0
       /\ r.lastCall = ZeroTime \/ t - r.lastCall <= l.drawDelay
    THEN [r EXCEPT !.first = IF @ = ZeroTime THEN t ELSE @,
                   !.lastCall = t,
                   !.paced = @ /\ (r.lastCall = ZeroTime
                                      \/ t - r.lastCall = Pace)]
    ELSE Unsteady(r.fpsFixed)
RecordDraw(r, t) ==
    IF r.steady
    THEN [r EXCEPT !.draws = @ + 1,
                   !.lastDraw = t,
                   !.drawGap = IF r.lastDraw = ZeroTime THEN ZeroTime
                                                        ELSE t - r.lastDraw]
    ELSE r

\* No RootScene has been constructed.
NoRoot == [made |-> FALSE, graphics |-> <<>>]

\* NewRootScene(c), once c.Init has returned without adding graphics.
NewRootScene == [made |-> TRUE, graphics |-> <<>>]

\* RootScene.AddGraphics: s.graphics = append(s.graphics, g).
rootAddGraphics(r, g) == [r EXCEPT !.graphics = Append(@, g)]

\* RootScene.Draw: whether the loop skips g.
drawsDisposedToo(g) == FALSE
skipGraphics(g) == gDisposed[g]

\* NewManager(): no scene, nothing added, nothing running.
InitScene ==
    /\ disposed = FALSE
    /\ currentScene = Nil
    /\ scenes = <<>>
    /\ isDisposed = [o \in Objects |-> FALSE]
    /\ nObjects = 0
    /\ stack = <<>>
    /\ loop = NoLoop
    /\ hostSaw = NoPanic
    /\ passNo = 0
    /\ passScene = Nil
    /\ passStart = <<>>
    /\ log = <<>>
    /\ skipped = {}
    /\ outcome = "none"
    /\ cs = NoCs
    /\ initDone = {}
    /\ raised = NoPanic
    /\ age = [o \in Objects |-> "none"]
    /\ gDisposed = [g \in GraphicsIds |-> FALSE]
    /\ nGraphics = 0
    /\ dloop = NoDLoop
    /\ drawNo = 0
    /\ drawn = <<>>
    /\ dhist = NoDHist
    /\ layerOf = [g \in GraphicsIds |-> 0]
    /\ frame = "none"
    /\ now = 0
    /\ lastDo = NoDo
    /\ run = NoRun

Init ==
    /\ InitScene
    /\ limiter = NoLimiter
    /\ root = NoRoot

PassRunning(s) ==
    \E k \in 1..Len(stack) : stack[k].kind = "updateWithDelta" /\ stack[k].scene = s

histPass == <<passNo, passScene, passStart, log, skipped, outcome, cs>>

\* The history of the last pass is kept until the host does its next call.
KeepOrForget ==
    IF stack = <<>>
    THEN /\ passScene' = Nil
         /\ passStart' = <<>>
         /\ log' = <<>>
         /\ skipped' = {}
         /\ outcome' = "none"
    ELSE UNCHANGED <<passScene, passStart, log, skipped, outcome>>

\* The history kept per object.  "in": AddObject was called inside the
\* running pass of its scene; "out": it was called outside any pass of its
\* scene, since that scene's last pass started.  When a pass of the scene
\* starts, "in" becomes "dueIn", "out" becomes "wait" and "wait" becomes
\* "dueOut"; one pass later the object is "old".  "dropped": the loop found
\* it disposed at its turn.  AddObject always goes to the current scene, so
\* a ChangeScene call makes every object of the scenes before "old".
PassStarts(a) ==
    CASE a = "in" -> "dueIn"
      [] a = "out" -> "wait"
      [] a = "wait" -> "dueOut"
      [] a \in {"dueIn", "dueOut"} -> "old"
      [] OTHER -> a

SceneGone(a) == IF a \in {"none", "dropped"} THEN a ELSE "old"

\* The objects a scene still refers to.
Held(s) == Range(scenes[s].objects) \cup Range(scenes[s].addedObjects)

\* ------------------------------------------------------------ user code
\* scene.AddObject(o) called by the host between frames or by a callback:
\* o is appended to the add-queue and o.Init(scene) is entered.
CallAddObject ==
    /\ InUserCode
    /\ nObjects < MaxObjects
    /\ CtxScene # Nil
    /\ scenes[CtxScene].controllerObject # Nil
    /\ LET s == CtxScene
           o == nObjects + 1
       IN /\ nObjects' = o
          /\ scenes' = [scenes EXCEPT ![s] = AddObject(@, o)]
          /\ stack' = Append(stack, Frame("Object.Init", s, o, Nil))
          /\ age' = [age EXCEPT ![o] = IF PassRunning(s) THEN "in" ELSE "out"]
    /\ KeepOrForget
    /\ cs' = IF stack = <<>> THEN NoCs ELSE cs
    /\ UNCHANGED <<currentScene, isDisposed, loop, hostSaw, passNo, initDone,
                   raised>>
    /\ UNCHANGED frame
    /\ UNCHANGED <<drawVars, limVars, disposed, root>>

\* o.Init returns; AddObject has nothing left to do and returns too.
ReturnObjectInit ==
    /\ stack # <<>>
    /\ Top.kind = "Object.Init"
    /\ stack' = Pop
    /\ UNCHANGED <<currentScene, scenes, isDisposed, nObjects, loop, hostSaw,
                   histPass, initDone, raised, age>>
    /\ UNCHANGED frame
    /\ UNCHANGED <<drawVars, limVars, disposed, root>>

\* Manager.ChangeScene(c) up to the call of c.Init: the new scene is
\* allocated with a fresh simple drawer and installed as current.
CallChangeScene ==
    /\ InUserCode
    /\ Len(scenes) < MaxScenes
    /\ LET c == Len(scenes) + 1
       IN /\ scenes' = Append(scenes, [newScene(c) EXCEPT !.drawer = newSimpleDrawer])
          /\ currentScene' = installScene(currentScene, c)
          /\ stack' = Append(stack, Frame("Controller.Init", c, c, currentScene))
          /\ cs' = IF stack = <<>> THEN NoCs
                   ELSE IF ~InsidePass THEN cs
                   ELSE IF cs.called THEN [cs EXCEPT !.ctrls = @ \cup {c}]
                   ELSE [called |-> TRUE, idx |-> loop.i, from |-> Top.kind,
                         root |-> stack[2].kind, ctrls |-> {c}]
    /\ age' = [o \in Objects |-> SceneGone(age[o])]
    /\ KeepOrForget
    /\ UNCHANGED <<isDisposed, nObjects, loop, hostSaw, passNo, initDone, raised>>
    /\ frame' = "none"
    /\ UNCHANGED <<drawVars, limVars, disposed, root>>

\* c.Init returns into ChangeScene, which disposes the previous scene, if
\* any.  dispose panics with stopUpdate when that scene is inside its update.
ReturnControllerInit ==
    /\ stack # <<>>
    /\ Top.kind = "Controller.Init"
    /\ initDone' = initDone \cup {Top.who}
    /\ IF Top.prev = Nil
       THEN /\ stack' = Pop
            /\ UNCHANGED <<scenes, loop, hostSaw, outcome>>
       ELSE /\ scenes' = [scenes EXCEPT ![Top.prev] = dispose(@)]
            /\ IF disposePanics(scenes[Top.prev])
               THEN Panic(stopUpdate)
               ELSE /\ stack' = Pop
                    /\ UNCHANGED <<loop, hostSaw, outcome>>
    /\ UNCHANGED <<currentScene, isDisposed, nObjects, passNo, passScene, passStart,
                   log, skipped, cs, raised, age>>
    /\ UNCHANGED frame
    /\ UNCHANGED <<drawVars, limVars, disposed, root>>

\* InitContext.SetDrawer(d) from Controller.Init, d a custom Drawer (user
\* code cannot make a *simpleDrawer: the type and its constructor are not
\* exported).  The sanity check of setDrawer looks at its argument d.
setDrawerPanics(d) == d.kind = "simple" /\ Len(d.graphics) > 0
setDrawer(sc, d) == [sc EXCEPT !.drawer = d]

CallSetDrawer ==
    /\ stack # <<>>
    /\ Top.kind = "Controller.Init"
    /\ scenes[Top.scene].controllerObject # Nil
    /\ scenes[Top.scene].drawer.kind = "simple"
    /\ \E d \in {CustomDrawer} :
         IF setDrawerPanics(d)
         THEN /\ Panic("setting a drawer after graphics were already added")
              /\ UNCHANGED scenes
         ELSE /\ scenes' = [scenes EXCEPT ![Top.scene] = setDrawer(@, d)]
              /\ UNCHANGED <<stack, loop, hostSaw, outcome>>
    /\ UNCHANGED <<currentScene, isDisposed, nObjects, passNo, passScene, passStart,
                   log, skipped, cs, initDone, raised, age>>
    /\ UNCHANGED frame
    /\ UNCHANGED <<drawVars, limVars, disposed, root>>

\* An object's disposed flag changes.  The library reads the flags only in
\* the loop of the update pass and only of the objects the scene holds, so
\* the changes are placed where user code runs between two such reads: in
\* the host between frames and in the Update callbacks of the controller
\* and of the objects.
SetDisposed ==
    /\ \/ AtHost
       \/ stack # <<>> /\ Top.kind \in {"Controller.Update", "Object.Update"}
    /\ CtxScene # Nil
    /\ \E o \in Held(CtxScene), v \in BOOLEAN :
         /\ isDisposed[o] # v
         /\ isDisposed' = [isDisposed EXCEPT ![o] = v]
    /\ KeepOrForget
    /\ cs' = IF stack = <<>> THEN NoCs ELSE cs
    /\ UNCHANGED <<currentScene, scenes, nObjects, stack, loop, hostSaw, passNo,
                   initDone, raised, age>>
    /\ UNCHANGED frame
    /\ UNCHANGED <<drawVars, limVars, disposed, root>>

\* A callback panics with a value of its own, at most once in a run.
CallbackFails ==
    /\ InCallback
    /\ raised = NoPanic
    /\ \E e \in Failures :
         /\ raised' = e
         /\ Panic(e)
    /\ UNCHANGED <<currentScene, scenes, isDisposed, nObjects, passNo, passScene,
                   passStart, log, skipped, cs, initDone, age>>
    /\ UNCHANGED frame
    /\ UNCHANGED <<drawVars, limVars, disposed, root>>

\* ------------------------------------------------------------ update pass
\* Manager.Update / UpdateWithDelta -> Scene.updateWithDelta: the guard is
\* deferred, insideUpdate is set and the controller's Update is entered.
ManagerUpdate ==
    /\ AtHost
    /\ passNo < MaxPasses
    /\ currentScene # Nil
    /\ LET s == currentScene
           c == scenes[s].controllerObject
       IN /\ scenes' = [scenes EXCEPT ![s].insideUpdate = TRUE]
          /\ stack' = <<Frame("updateWithDelta", s, Nil, Nil),
                        Frame("Controller.Update", s, c, Nil)>>
          /\ loop' = [NoLoop EXCEPT !.pc = "controller"]
          /\ passNo' = passNo + 1
          /\ passScene' = s
          /\ passStart' = scenes[s].objects
          /\ log' = <<Ev("Controller.Update", c)>>
          /\ skipped' = {}
          /\ outcome' = "running"
          /\ cs' = NoCs
          /\ age' = [o \in Objects |-> PassStarts(age[o])]
    /\ UNCHANGED <<currentScene, isDisposed, nObjects, hostSaw, initDone, raised>>
    /\ UNCHANGED frame
    /\ UNCHANGED <<drawVars, limVars, disposed, root>>

\* Manager.Update with no current scene: the nil *Scene is dereferenced
\* inside updateWithDelta, under its deferred guard.
ManagerUpdateNoScene ==
    /\ AtHost
    /\ currentScene = Nil
    /\ hostSaw' = recovered(RuntimeError)
    /\ frame' = "update"
    /\ UNCHANGED <<currentScene, scenes, isDisposed, nObjects, stack, loop, histPass,
                   initDone, raised, age>>
    /\ UNCHANGED <<drawVars, limVars, disposed, root>>

\* The controller's Update returns; the loop over s.objects starts.
ReturnControllerUpdate ==
    /\ stack # <<>>
    /\ Top.kind = "Controller.Update"
    /\ stack' = Pop
    /\ loop' = [i |-> 1, n |-> 0, arr |-> rangeObjects(scenes[Top.scene]), pc |-> "objects"]
    /\ UNCHANGED <<currentScene, scenes, isDisposed, nObjects, hostSaw, histPass,
                   initDone, raised, age>>
    /\ UNCHANGED frame
    /\ UNCHANGED <<drawVars, limVars, disposed, root>>

InLoop ==
    /\ stack # <<>>
    /\ Top.kind = "updateWithDelta"
    /\ loop.pc = "objects"

\* One iteration whose object reads disposed: continue.
LoopSkip ==
    /\ InLoop
    /\ loop.i <= Len(loop.arr)
    /\ skipObject(loop.arr[loop.i])
    /\ loop' = [loop EXCEPT !.i = @ + 1]
    /\ skipped' = skipped \cup {loop.arr[loop.i]}
    /\ age' = [age EXCEPT ![loop.arr[loop.i]] = "dropped"]
    /\ UNCHANGED <<currentScene, scenes, isDisposed, nObjects, stack, hostSaw, passNo,
                   passScene, passStart, log, outcome, cs, initDone, raised>>
    /\ UNCHANGED frame
    /\ UNCHANGED <<drawVars, limVars, disposed, root>>

\* One iteration whose object is live: its Update is entered.
LoopCallUpdate ==
    /\ InLoop
    /\ loop.i <= Len(loop.arr)
    /\ ~skipObject(loop.arr[loop.i])
    /\ LET o == loop.arr[loop.i]
       IN /\ stack' = Append(stack, Frame("Object.Update", Top.scene, o, Nil))
          /\ log' = Append(log, Ev("Object.Update", o))
    /\ UNCHANGED <<currentScene, scenes, isDisposed, nObjects, loop, hostSaw, passNo,
                   passScene, passStart, skipped, outcome, cs, initDone, raised,
                   age>>
    /\ UNCHANGED frame
    /\ UNCHANGED <<drawVars, limVars, disposed, root>>

\* o.Update returns; o is appended to liveObjects, in place.
ReturnObjectUpdate ==
    /\ stack # <<>>
    /\ Top.kind = "Object.Update"
    /\ stack' = Pop
    /\ loop' = [loop EXCEPT !.arr = appendLive(@, loop.n, Top.who),
                            !.n = @ + 1,
                            !.i = @ + 1]
    /\ scenes' = [scenes EXCEPT ![Top.scene].objects =
                    IF Len(@) > loop.n THEN appendLive(@, loop.n, Top.who) ELSE @]
    /\ UNCHANGED <<currentScene, isDisposed, nObjects, hostSaw, histPass, initDone,
                   raised, age>>
    /\ UNCHANGED frame
    /\ UNCHANGED <<drawVars, limVars, disposed, root>>

\* The pass from the end of the loop to the end of updateWithDelta.
finishPass(sc) == [flushAdded(sc) EXCEPT !.insideUpdate = FALSE]

\* The loop is over: s.objects = liveObjects, then the drawer's Update.  The
\* simple drawer's Update only marks the filter; the flush and the return
\* of updateWithDelta follow at once.
LoopEndSimpleDrawer ==
    /\ InLoop
    /\ loop.i > Len(loop.arr)
    /\ scenes[Top.scene].drawer.kind # "custom"
    /\ LET s  == Top.scene
           sc == [scenes[s] EXCEPT !.objects = SubSeq(loop.arr, 1, loop.n)]
       IN IF sc.drawer.kind = "nil"
          THEN /\ scenes' = [scenes EXCEPT ![s] = sc]
               /\ Panic(RuntimeError)
               /\ UNCHANGED log
          ELSE /\ scenes' = [scenes EXCEPT ![s] =
                               finishPass([sc EXCEPT !.drawer = simpleDrawerUpdate(@)])]
               /\ stack' = <<>>
               /\ loop' = NoLoop
               /\ log' = log \o <<Ev("Drawer.Update", 0), Ev("flush", 0)>>
               /\ outcome' = "completed"
               /\ UNCHANGED hostSaw
    /\ UNCHANGED <<currentScene, isDisposed, nObjects, passNo, passScene, passStart,
                   skipped, cs, initDone, raised, age>>
    /\ frame' = IF scenes[Top.scene].drawer.kind = "nil" THEN frame ELSE "update"
    /\ UNCHANGED <<drawVars, limVars, disposed, root>>

\* The loop is over and the scene has a custom drawer: its Update is entered.
LoopEndCustomDrawer ==
    /\ InLoop
    /\ loop.i > Len(loop.arr)
    /\ scenes[Top.scene].drawer.kind = "custom"
    /\ scenes' = [scenes EXCEPT ![Top.scene].objects = SubSeq(loop.arr, 1, loop.n)]
    /\ stack' = Append(stack, Frame("Drawer.Update", Top.scene, Nil, Nil))
    /\ loop' = [loop EXCEPT !.pc = "drawer"]
    /\ log' = Append(log, Ev("Drawer.Update", 0))
    /\ UNCHANGED <<currentScene, isDisposed, nObjects, hostSaw, passNo, passScene,
                   passStart, skipped, outcome, cs, initDone, raised, age>>
    /\ UNCHANGED frame
    /\ UNCHANGED <<drawVars, limVars, disposed, root>>

\* The custom drawer's Update returns: flush, insideUpdate = false, return.
ReturnDrawerUpdate ==
    /\ stack # <<>>
    /\ Top.kind = "Drawer.Update"
    /\ scenes' = [scenes EXCEPT ![Top.scene] = finishPass(@)]
    /\ stack' = <<>>
    /\ loop' = NoLoop
    /\ log' = Append(log, Ev("flush", 0))
    /\ outcome' = "completed"
    /\ UNCHANGED <<currentScene, isDisposed, nObjects, hostSaw, passNo, passScene,
                   passStart, skipped, cs, initDone, raised, age>>
    /\ frame' = "update"
    /\ UNCHANGED <<drawVars, limVars, disposed, root>>

\* -------------------------------------------------------------- draw pass
\* The graphics the running user code can reach: those of its scene's
\* drawer and those of the draw loop in progress.
HeldGraphics ==
    (IF CtxScene = Nil THEN {} ELSE Range(scenes[CtxScene].drawer.graphics))
        \cup Range(dloop.arr)

\* scene.AddGraphics(g, layer) on a scene with the default drawer, whose
\* Viewport(0) is the drawer itself: simpleDrawer.AddGraphics.
CallAddGraphics ==
    /\ InUserCode
    /\ nGraphics < MaxGraphics
    /\ CtxScene # Nil
    /\ scenes[CtxScene].drawer.kind = "simple"
    /\ \E layer \in Layers :
         /\ scenes' = [scenes EXCEPT ![CtxScene].drawer =
                          simpleAddGraphics(@, nGraphics + 1, layer)]
         /\ layerOf' = [layerOf EXCEPT ![nGraphics + 1] = layer]
    /\ nGraphics' = nGraphics + 1
    /\ UNCHANGED <<currentScene, isDisposed, nObjects, stack, loop, hostSaw, histPass,
                   initDone, raised, age, gDisposed, dloop, drawNo, drawn, dhist,
                   frame, limVars, disposed, root>>

\* A graphics starts to report disposed.  The drawer reads the flags only
\* in filter, so user code that runs between two filters is where the
\* change is placed: the host, the Update callbacks and the Draw callbacks.
SetGraphicsDisposed ==
    /\ \/ AtHost
       \/ stack # <<>> /\ Top.kind \in {"Controller.Update", "Object.Update",
                                        "Graphics.Draw"}
    /\ \E g \in HeldGraphics :
         /\ ~gDisposed[g]
         /\ gDisposed' = [gDisposed EXCEPT ![g] = TRUE]
    /\ UNCHANGED <<currentScene, scenes, isDisposed, nObjects, stack, loop, hostSaw,
                   histPass, initDone, raised, age, nGraphics, dloop, drawNo, drawn,
                   dhist, frame, limVars, disposed, root>>
    /\ UNCHANGED layerOf

\* Manager.Draw -> Scene.draw -> simpleDrawer.Draw up to its loop.
ManagerDrawSimple ==
    /\ AtHost
    /\ drawNo < MaxDraws
    /\ currentScene # Nil
    /\ scenes[currentScene].drawer.kind = "simple"
    /\ LET s == currentScene
           d == scenes[s].drawer
       IN /\ scenes' = [scenes EXCEPT ![s].drawer = simpleDrawerDraw(d)]
          /\ dloop' = [i |-> 1, arr |-> simpleDrawerDraw(d).graphics, pc |-> "graphics"]
          /\ stack' = <<Frame("draw", s, Nil, Nil)>>
          /\ dhist' = [disposed |-> {g \in Range(d.graphics) : gDisposed[g]},
                       list |-> d.graphics,
                       afterUpdate |-> frame = "update",
                       scene |-> s]
    /\ drawNo' = drawNo + 1
    /\ drawn' = <<>>
    /\ frame' = "draw"
    /\ UNCHANGED <<currentScene, isDisposed, nObjects, loop, hostSaw, histPass,
                   initDone, raised, age, gDisposed, nGraphics, limVars, disposed, root>>
    /\ UNCHANGED layerOf

InDrawLoop ==
    /\ stack # <<>>
    /\ Top.kind = "draw"
    /\ dloop.pc = "graphics"

\* One iteration of the draw loop: g.Draw(dst) is entered.
DrawCall ==
    /\ InDrawLoop
    /\ dloop.i <= Len(dloop.arr)
    /\ stack' = Append(stack, Frame("Graphics.Draw", Top.scene, dloop.arr[dloop.i], Nil))
    /\ drawn' = Append(drawn, dloop.arr[dloop.i])
    /\ UNCHANGED <<currentScene, scenes, isDisposed, nObjects, loop, hostSaw, histPass,
                   initDone, raised, age, gDisposed, nGraphics, dloop, drawNo, dhist,
                   frame, limVars, disposed, root>>
    /\ UNCHANGED layerOf

\* g.Draw returns; the loop goes on.
ReturnGraphicsDraw ==
    /\ stack # <<>>
    /\ Top.kind = "Graphics.Draw"
    /\ stack' = Pop
    /\ dloop' = [dloop EXCEPT !.i = @ + 1]
    /\ UNCHANGED <<currentScene, scenes, isDisposed, nObjects, loop, hostSaw, histPass,
                   initDone, raised, age, gDisposed, nGraphics, drawNo, drawn, dhist,
                   frame, limVars, disposed, root>>
    /\ UNCHANGED layerOf

\* The draw loop is over: Manager.Draw returns.
DrawEnd ==
    /\ InDrawLoop
    /\ dloop.i > Len(dloop.arr)
    /\ stack' = <<>>
    /\ dloop' = NoDLoop
    /\ UNCHANGED <<currentScene, scenes, isDisposed, nObjects, loop, hostSaw, histPass,
                   initDone, raised, age, gDisposed, nGraphics, drawNo, drawn, dhist,
                   frame, limVars, disposed, root>>
    /\ UNCHANGED layerOf

\* Manager.Draw on a scene with a custom drawer: its Draw is entered.
ManagerDrawCustom ==
    /\ AtHost
    /\ drawNo < MaxDraws
    /\ currentScene # Nil
    /\ scenes[currentScene].drawer.kind = "custom"
    /\ stack' = <<Frame("draw", currentScene, Nil, Nil),
                  Frame("Drawer.Draw", currentScene, Nil, Nil)>>
    /\ drawNo' = drawNo + 1
    /\ drawn' = <<>>
    /\ dhist' = [NoDHist EXCEPT !.scene = currentScene]
    /\ frame' = "draw"
    /\ UNCHANGED <<currentScene, scenes, isDisposed, nObjects, loop, hostSaw, histPass,
                   initDone, raised, age, gDisposed, nGraphics, dloop, limVars, disposed, root>>
    /\ UNCHANGED layerOf

\* The custom drawer's Draw returns: Manager.Draw returns.
ReturnDrawerDraw ==
    /\ stack # <<>>
    /\ Top.kind = "Drawer.Draw"
    /\ stack' = <<>>
    /\ UNCHANGED <<currentScene, scenes, isDisposed, nObjects, loop, hostSaw, histPass,
                   initDone, raised, age, drawVars, frame, limVars, disposed, root>>

\* Manager.Draw with no current scene: the nil *Scene is dereferenced.
ManagerDrawNoScene ==
    /\ AtHost
    /\ currentScene = Nil
    /\ hostSaw' = RuntimeError
    /\ frame' = "draw"
    /\ UNCHANGED <<currentScene, scenes, isDisposed, nObjects, stack, loop, histPass,
                   initDone, raised, age, drawVars, limVars, disposed, root>>

Next ==
    \/ CallAddObject
    \/ ReturnObjectInit
    \/ CallChangeScene
    \/ ReturnControllerInit
    \/ CallSetDrawer
    \/ SetDisposed
    \/ CallbackFails
    \/ ManagerUpdate
    \/ ManagerUpdateNoScene
    \/ ReturnControllerUpdate
    \/ LoopSkip
    \/ LoopCallUpdate
    \/ ReturnObjectUpdate
    \/ LoopEndSimpleDrawer
    \/ LoopEndCustomDrawer
    \/ ReturnDrawerUpdate

Spec == Init /\ [][Next]_vars

\* The library's own steps of a pass and the returns of the callbacks:
\* code that is running goes on running, and a callback that was entered
\* returns, unless it changes the scene or fails.
PassStep ==
    \/ ReturnObjectInit
    \/ ReturnControllerInit
    \/ ReturnControllerUpdate
    \/ LoopSkip
    \/ LoopCallUpdate
    \/ ReturnObjectUpdate
    \/ LoopEndSimpleDrawer
    \/ LoopEndCustomDrawer
    \/ ReturnDrawerUpdate

SpecFair == Init /\ [][Next]_vars /\ WF_vars(PassStep)

\* The host driver recovers from a panic that reached it and goes on
\* calling the Manager.  The history of the pass is forgotten as at any
\* other step of the host.
HostRecovers ==
    /\ stack = <<>>
    /\ hostSaw # NoPanic
    /\ hostSaw' = NoPanic
    /\ KeepOrForget
    /\ cs' = NoCs
    /\ UNCHANGED <<currentScene, scenes, isDisposed, nObjects, stack, loop, passNo,
                   initDone, raised, age, drawVars, frame, limVars, disposed, root>>

NextRecover ==
    \/ Next
    \/ HostRecovers

SpecRecover == Init /\ [][NextRecover]_vars

\* ------------------------------------------------------ FrameLimiter steps
sceneVars == <<disposed, root, currentScene, scenes, isDisposed, nObjects, loop, hostSaw, histPass,
               initDone, raised, age, drawVars, frame>>

InitLimiter ==
    /\ InitScene
    /\ root = NoRoot
    /\ \E fps \in FpsValues : limiter = NewFrameLimiter(fps)

\* limiter.Do(dst, draw) called by the host.
LimiterDo ==
    /\ AtHost
    /\ IF doReturnsEarly(limiter)
       THEN /\ lastDo' = DoResult(limiter, FALSE, FALSE)
            /\ run' = RecordCall(run, limiter, now)
            /\ UNCHANGED <<limiter, stack>>
       ELSE IF limiter.drawDelay # 0
       THEN LET l == doAccumulate(limiter, now)
            IN IF doSkipsFrame(l)
               THEN /\ limiter' = l
                    /\ lastDo' = DoResult(limiter, FALSE, FALSE)
                    /\ run' = RecordCall(run, limiter, now)
                    /\ UNCHANGED stack
               ELSE /\ limiter' = doSpend(l)
                    /\ lastDo' = DoResult(limiter, TRUE, TRUE)
                    /\ run' = RecordDraw(RecordCall(run, limiter, now), now)
                    /\ stack' = <<Frame("Limiter.draw", Nil, Nil, Nil)>>
       ELSE /\ lastDo' = DoResult(limiter, TRUE, FALSE)
            /\ run' = RecordDraw(RecordCall(run, limiter, now), now)
            /\ stack' = <<Frame("Limiter.draw", Nil, Nil, Nil)>>
            /\ UNCHANGED limiter
    /\ UNCHANGED <<sceneVars, now>>

\* The draw function given to Do returns, and Do with it.
ReturnLimiterDraw ==
    /\ stack # <<>>
    /\ Top.kind = "Limiter.draw"
    /\ stack' = <<>>
    /\ UNCHANGED <<sceneVars, limVars>>

\* limiter.SetDirty(v), from the game's logic or from inside the draw
\* function.
LimiterSetDirty ==
    /\ AtHost \/ (stack # <<>> /\ Top.kind = "Limiter.draw")
    /\ \E v \in BOOLEAN :
         /\ v # limiter.dirty
         /\ limiter' = [limiter EXCEPT !.dirty = v]
    /\ lastDo' = IF stack = <<>> THEN NoDo ELSE lastDo
    /\ run' = IF limiter'.dirty /\ run.steady THEN run
                                               ELSE Unsteady(run.fpsFixed)
    /\ UNCHANGED <<sceneVars, stack, now>>

\* limiter.SetFPS(fps) called by the host.
LimiterSetFPS ==
    /\ AtHost
    /\ \E fps \in FpsValues :
         /\ fps # limiter.fps
         /\ limiter' = SetFPS(limiter, fps)
    /\ lastDo' = NoDo
    /\ run' = Unsteady(FALSE)
    /\ UNCHANGED <<sceneVars, stack, now>>

\* Wall-clock time passes between two calls of the host.
Tick ==
    /\ AtHost
    /\ \E dt \in Steps :
         /\ now + dt <= MaxTime * Millisecond
         /\ now' = now + dt
    /\ lastDo' = NoDo
    /\ UNCHANGED <<sceneVars, stack, limiter, run>>

NextLimiter ==
    \/ LimiterDo
    \/ ReturnLimiterDraw
    \/ LimiterSetDirty
    \/ LimiterSetFPS
    \/ Tick

SpecLimiter == InitLimiter /\ [][NextLimiter]_vars

\* The draw tree: scenes with a controller, a drawer and graphics, and
\* the part of the update tree that reaches the drawer.
NextDraw ==
    \/ CallChangeScene
    \/ ReturnControllerInit
    \/ CallSetDrawer
    \/ CallbackFails
    \/ ManagerUpdate
    \/ ManagerUpdateNoScene
    \/ ReturnControllerUpdate
    \/ LoopEndSimpleDrawer
    \/ LoopEndCustomDrawer
    \/ ReturnDrawerUpdate
    \/ CallAddGraphics
    \/ SetGraphicsDisposed
    \/ ManagerDrawSimple
    \/ DrawCall
    \/ ReturnGraphicsDraw
    \/ DrawEnd
    \/ ManagerDrawCustom
    \/ ReturnDrawerDraw
    \/ ManagerDrawNoScene

SpecDraw == Init /\ [][NextDraw]_vars

\* The draw tree with a host that recovers from a panic and goes on.
NextDrawRecover ==
    \/ NextDraw
    \/ HostRecovers

SpecDrawRecover == Init /\ [][NextDrawRecover]_vars

\* ------------------------------------------------------------ RootScene
\* The draw loop of the scene that holds its graphics itself: RootScene.Draw,
\* and the same loop in the Scene.draw that has no drawer.
InitRoot ==
    /\ InitScene
    /\ limiter = NoLimiter
    /\ root = NewRootScene

InRootCallback == stack # <<>> /\ Top.kind = "Root.Graphics.Draw"

\* root.AddGraphics(g) called by the host or by a Draw callback.
RootAddGraphics ==
    /\ AtHost \/ InRootCallback
    /\ root.made
    /\ nGraphics < MaxGraphics
    /\ root' = rootAddGraphics(root, nGraphics + 1)
    /\ nGraphics' = nGraphics + 1
    /\ UNCHANGED <<disposed, currentScene, scenes, isDisposed, nObjects, stack, loop,
                   hostSaw, histPass, initDone, raised, age, gDisposed, dloop, drawNo,
                   drawn, dhist, layerOf, frame, limVars>>

\* A graphics of the root scene starts to report disposed, between two
\* frames or while a Draw callback runs.
RootSetGraphicsDisposed ==
    /\ AtHost \/ InRootCallback
    /\ \E g \in Range(root.graphics) \cup Range(dloop.arr) :
         /\ ~gDisposed[g]
         /\ gDisposed' = [gDisposed EXCEPT ![g] = TRUE]
    /\ UNCHANGED <<disposed, root, currentScene, scenes, isDisposed, nObjects, stack,
                   loop, hostSaw, histPass, initDone, raised, age, nGraphics, dloop,
                   drawNo, drawn, dhist, layerOf, frame, limVars>>

\* root.Draw(screen): liveGraphics := s.graphics[:0] and the range over
\* s.graphics starts.  arr is the array both slices share, n the length
\* of liveGraphics.
RootDraw ==
    /\ AtHost
    /\ root.made
    /\ drawNo < MaxDraws
    /\ dloop' = [i |-> 1, n |-> 0, arr |-> root.graphics, pc |-> "root", skipped |-> {}]
    /\ stack' = <<Frame("RootScene.Draw", Nil, Nil, Nil)>>
    /\ dhist' = [NoDHist EXCEPT !.disposed = {g \in Range(root.graphics) : gDisposed[g]},
                                !.list = root.graphics]
    /\ drawNo' = drawNo + 1
    /\ drawn' = <<>>
    /\ UNCHANGED <<disposed, root, currentScene, scenes, isDisposed, nObjects, loop,
                   hostSaw, histPass, initDone, raised, age, gDisposed, nGraphics,
                   layerOf, frame, limVars>>

InRootLoop ==
    /\ stack # <<>>
    /\ Top.kind = "RootScene.Draw"
    /\ dloop.pc = "root"

\* One iteration whose graphics reads disposed: continue.
RootLoopSkip ==
    /\ InRootLoop
    /\ dloop.i <= Len(dloop.arr)
    /\ skipGraphics(dloop.arr[dloop.i])
    /\ dloop' = [dloop EXCEPT !.i = @ + 1, !.skipped = @ \cup {dloop.arr[dloop.i]}]
    /\ UNCHANGED <<disposed, root, currentScene, scenes, isDisposed, nObjects, stack,
                   loop, hostSaw, histPass, initDone, raised, age, gDisposed, nGraphics,
                   drawNo, drawn, dhist, layerOf, frame, limVars>>

\* One iteration whose graphics is live: g.Draw(screen) is entered.
RootLoopDraw ==
    /\ InRootLoop
    /\ dloop.i <= Len(dloop.arr)
    /\ ~skipGraphics(dloop.arr[dloop.i])
    /\ stack' = Append(stack, Frame("Root.Graphics.Draw", Nil, dloop.arr[dloop.i], Nil))
    /\ drawn' = Append(drawn, dloop.arr[dloop.i])
    /\ UNCHANGED <<disposed, root, currentScene, scenes, isDisposed, nObjects, loop,
                   hostSaw, histPass, initDone, raised, age, gDisposed, nGraphics, dloop,
                   drawNo, dhist, layerOf, frame, limVars>>

\* g.Draw returns: liveGraphics = append(liveGraphics, g).
RootReturnDraw ==
    /\ InRootCallback
    /\ stack' = Pop
    /\ dloop' = [dloop EXCEPT !.arr = appendLive(@, dloop.n, Top.who),
                              !.n = @ + 1,
                              !.i = @ + 1]
    /\ UNCHANGED <<disposed, root, currentScene, scenes, isDisposed, nObjects, loop,
                   hostSaw, histPass, initDone, raised, age, gDisposed, nGraphics,
                   drawNo, drawn, dhist, layerOf, frame, limVars>>

\* The loop is over: s.graphics = liveGraphics, and Draw returns.
RootLoopEnd ==
    /\ InRootLoop
    /\ dloop.i > Len(dloop.arr)
    /\ root' = [root EXCEPT !.graphics = SubSeq(dloop.arr, 1, dloop.n)]
    /\ stack' = <<>>
    /\ dloop' = [dloop EXCEPT !.pc = "none"]
    /\ UNCHANGED <<disposed, currentScene, scenes, isDisposed, nObjects, loop, hostSaw,
                   histPass, initDone, raised, age, gDisposed, nGraphics, drawNo, drawn,
                   dhist, layerOf, frame, limVars>>

NextRoot ==
    \/ RootAddGraphics
    \/ RootSetGraphicsDisposed
    \/ RootDraw
    \/ RootLoopSkip
    \/ RootLoopDraw
    \/ RootReturnDraw
    \/ RootLoopEnd

SpecRoot == InitRoot /\ [][NextRoot]_vars

\* ------------------------------------------------------- Manager.Dispose
\* Manager.Dispose: m.disposed = true.
managerDisposeToggles(d) == ~d
managerDispose(d) == TRUE

\* Manager.IsDisposed().
ManagerIsDisposed == disposed

\* m.Dispose() called by the host or by a callback.
ManagerDispose ==
    /\ InUserCode
    /\ disposed' = managerDispose(disposed)
    /\ UNCHANGED <<currentScene, scenes, isDisposed, nObjects, stack, loop, hostSaw,
                   histPass, initDone, raised, age, drawVars, frame, limVars, root>>

\* The draw tree with a Manager that can be disposed.
NextDispose ==
    \/ NextDraw
    \/ ManagerDispose

SpecDispose == Init /\ [][NextDispose]_vars

\* ------------------------------------------------------------ properties
IsUpdateOf(e) == e.ev = "Object.Update"
Updated(o) == Ev("Object.Update", o) \in Range(log)
ObjEvents(s) == [j \in 1..Len(s) |-> Ev("Object.Update", s[j])]
NotSkipped(o) == o \notin skipped

\* The objects among the first k of the pass-start list that did not read
\* disposed at their turn.
LiveUpTo(k) == SelectSeq(SubSeq(passStart, 1, k), NotSkipped)

\* The log of a pass that has given the first k objects their turn.
LogUpTo(k) == <<Ev("Controller.Update", passScene)>> \o ObjEvents(LiveUpTo(k))

SceneAlive(s) == scenes[s].controllerObject # Nil

\* C1: when ChangeScene is called from inside the Update of the object at
\* index cs.idx of the running scene's active list (index 0: from the
\* controller's Update), the pass has run the controller's Update and the
\* Update of the live objects before that index and of that object, and it
\* runs nothing more: no later object, no drawer Update, no flush.  When
\* Manager.Update has returned, the pass was aborted and the Init of every
\* controller passed to ChangeScene has returned.
C1_TransitionAtomicity ==
    (cs.called /\ cs.root \in {"Controller.Update", "Object.Update"}) =>
        /\ log = LogUpTo(cs.idx)
        /\ cs.root = "Controller.Update" => cs.idx = 0
        /\ (stack = <<>> /\ hostSaw = NoPanic) =>
              /\ outcome = "aborted"
              /\ cs.ctrls \subseteq initDone
              /\ currentScene \in cs.ctrls
              /\ ~SceneAlive(passScene)

\* ChangeScene was called by the second of three objects; the pass was
\* aborted after the first two Updates.
C1_Witness ==
    /\ outcome = "aborted"
    /\ stack = <<>>
    /\ cs.root = "Object.Update"
    /\ cs.idx = 2
    /\ Len(passStart) = 3
    /\ Len(log) = 3

\* C2: the stopUpdate panic never reaches the host: when ChangeScene was
\* called from a callback of the running pass and no callback failed,
\* Manager.Update returns normally with the pass aborted.
C2_AbortAbsorbed ==
    /\ hostSaw # stopUpdate
    /\ outcome = "aborted" => (hostSaw = NoPanic /\ stack = <<>>)
    /\ (cs.called /\ stack = <<>> /\ raised = NoPanic) =>
          (outcome = "aborted" /\ hostSaw = NoPanic)

\* ChangeScene was called from an Object.Init reached through AddObject
\* inside the pass, and the host saw a normal return.
C2_Witness ==
    /\ outcome = "aborted"
    /\ cs.from = "Object.Init"
    /\ hostSaw = NoPanic
    /\ stack = <<>>

\* C3: a failure raised by a callback reaches the host with the value that
\* was raised, inside an update pass as well as outside.
C3_FailurePropagates ==
    raised # NoPanic => (hostSaw = raised /\ stack = <<>>)

\* A callback failed inside an update pass.
C3_Witness ==
    /\ raised \in Failures
    /\ outcome = "failed"
    /\ hostSaw = raised

\* The number of objects of the pass-start list whose turn has come.
TurnsDone ==
    IF loop.pc = "controller" THEN 0
    ELSE IF loop.pc = "drawer" THEN Len(passStart)
    ELSE IF Top.kind = "updateWithDelta" THEN loop.i - 1
    ELSE loop.i

\* C4: a pass runs the controller's Update, then the Updates of the live
\* objects in list order, then the drawer's Update, then the flush: the log
\* of a running pass is a prefix of that, the log of a completed pass is
\* all of it; no object added in the pass is in the active list before the
\* drawer's Update has returned, and all of them are once the pass is over.
C4_PassOrder ==
    /\ outcome = "running" =>
          /\ log = LogUpTo(TurnsDone)
                     \o (IF loop.pc = "drawer" THEN <<Ev("Drawer.Update", 0)>> ELSE <<>>)
          /\ \A o \in Objects :
                age[o] = "in" => o \notin Range(scenes[passScene].objects)
    /\ outcome = "completed" =>
          /\ log = LogUpTo(Len(passStart))
                     \o <<Ev("Drawer.Update", 0), Ev("flush", 0)>>
          /\ scenes[passScene].addedObjects = <<>>
          /\ \A o \in Objects :
                age[o] = "in" => o \in Range(scenes[passScene].objects)

\* A completed pass that updated two objects and dropped one.
C4_Witness ==
    /\ outcome = "completed"
    /\ Len(log) = 5
    /\ skipped # {}

\* C5: in every pass the Update calls follow the order of the AddObject
\* calls (objects are numbered in the order AddObject was called).
C5_OrderPreserved ==
    \A p, q \in 1..Len(log) :
        (p < q /\ IsUpdateOf(log[p]) /\ IsUpdateOf(log[q])) => log[p].id < log[q].id

\* A pass updated an object added two or more passes ago and, after it, an
\* object added during the pass before.
C5_Witness ==
    /\ outcome = "completed"
    /\ \E o, u \in Objects :
          /\ age[o] = "old" /\ Updated(o)
          /\ age[u] = "dueIn" /\ Updated(u)

\* C6: an object added inside pass N gets no Update in pass N; when pass
\* N+1 of its scene completes, it has got one unless it read disposed at
\* its turn.
C6_DeferredActivation ==
    /\ \A o \in Objects : age[o] = "in" => ~Updated(o)
    /\ outcome = "completed" => \A o \in Objects : age[o] = "dueIn" => Updated(o)

\* An object added inside the pass before was updated in this one.
C6_Witness ==
    /\ outcome = "completed"
    /\ \E o \in Objects : age[o] = "dueIn" /\ Updated(o)

\* C7 as claimed: an object added while no pass of its scene is running is
\* updated by the very next pass of its scene, if it is not disposed.
C7_NextPassUpdates ==
    outcome = "completed" =>
        \A o \in Objects : (age[o] = "wait" /\ ~isDisposed[o]) => Updated(o)

\* C7 amended: such an object gets no Update in the very next pass of its
\* scene; that pass, when it completes, has moved it to the active list;
\* the pass after it, when it completes, has called its Update unless the
\* object read disposed at its turn.
C7_SecondPassUpdates ==
    /\ \A o \in Objects : age[o] = "wait" => ~Updated(o)
    /\ outcome = "completed" =>
          \A o \in Objects :
              /\ age[o] = "wait" => o \in Range(scenes[passScene].objects)
              /\ age[o] = "dueOut" => Updated(o)

\* An object added outside a pass was updated in the second pass after.
C7_Witness ==
    /\ outcome = "completed"
    /\ \E o \in Objects : age[o] = "dueOut" /\ Updated(o)

\* C8 as claimed: o.Init runs before o is appended to the add-queue, so an
\* object c added by o.Init is in the queue before o.
C8_InitBeforeAppend ==
    \A k \in 1..Len(stack) :
        (stack[k].kind = "Object.Init" /\ SceneAlive(stack[k].scene)) =>
            stack[k].who \notin Range(scenes[stack[k].scene].addedObjects)

\* C8 amended: AddObject(o) appends o to the add-queue first and then runs
\* o.Init: while o.Init runs o is in the queue, and an object c that o.Init
\* adds is appended behind o.
C8_AppendBeforeInit ==
    \A k \in 1..Len(stack) :
        (stack[k].kind = "Object.Init" /\ SceneAlive(stack[k].scene)) =>
            LET added == scenes[stack[k].scene].addedObjects
            IN /\ stack[k].who \in Range(added)
               /\ (k < Len(stack) /\ stack[k + 1].kind = "Object.Init") =>
                     /\ stack[k + 1].who \in Range(added)
                     /\ IndexOf(added, stack[k].who) < IndexOf(added, stack[k + 1].who)

\* An Object.Init is running inside another Object.Init.
C8_Witness ==
    \E k \in 1..Len(stack) :
        /\ k < Len(stack)
        /\ stack[k].kind = "Object.Init"
        /\ stack[k + 1].kind = "Object.Init"
        /\ SceneAlive(stack[k].scene)

\* A step that enters o.Update.
EntersUpdate(o) ==
    /\ Len(stack') = Len(stack) + 1
    /\ stack'[Len(stack')].kind = "Object.Update"
    /\ stack'[Len(stack')].who = o

\* C9: no step enters the Update of an object whose IsDisposed reads true
\* or that the loop has dropped before; a dropped object gets no Update in
\* the pass that dropped it nor later, and it is not in the active list
\* when that pass has completed.
C9_RemovalBeforeUpdate ==
    /\ [](\A o \in Objects : age[o] = "dropped" =>
              /\ ~Updated(o)
              /\ outcome = "completed" => o \notin Range(scenes[passScene].objects))
    /\ [][\A o \in Objects :
              EntersUpdate(o) => (~isDisposed[o] /\ age[o] # "dropped")]_vars

\* A completed pass dropped an object and updated another one.
C9_Witness ==
    /\ outcome = "completed"
    /\ skipped # {}
    /\ \E o \in Objects : Updated(o)

\* The active list of scene s as the pass sees it: while the loop runs, the
\* survivors so far and the objects whose turn is still to come.
ActiveList(s) ==
    IF PassRunning(s) /\ loop.pc = "objects"
    THEN SubSeq(loop.arr, 1, loop.n)
           \o SubSeq(loop.arr, IF Top.kind = "updateWithDelta" THEN loop.i ELSE loop.i + 1,
                     Len(loop.arr))
           \o (IF Top.kind = "updateWithDelta" THEN <<>> ELSE <<loop.arr[loop.i]>>)
    ELSE scenes[s].objects

C11_InstallBeforeInit ==
    /\ \A k \in 1..Len(stack) :
          stack[k].kind = "Controller.Init" =>
             /\ stack[k].scene \notin initDone
             /\ Len(scenes) = stack[k].scene => currentScene = stack[k].scene
             /\ stack[k].prev # Nil =>
                   /\ SceneAlive(stack[k].prev)
                   /\ scenes[stack[k].prev].drawer # NilDrawer
    /\ \A c \in initDone : c > 1 => ~SceneAlive(c - 1)

\* The Init of a second controller has added an object to its scene, which
\* is current, while the scene before still holds its objects.
C11_Witness ==
    /\ stack # <<>>
    /\ Top.kind = "Controller.Init"
    /\ Top.prev # Nil
    /\ currentScene = Top.scene
    /\ scenes[Top.scene].addedObjects # <<>>
    /\ scenes[Top.prev].objects # <<>>
    /\ scenes[Top.prev].controllerObject = Top.prev
\* The step in which the Init of a controller returns into ChangeScene,
\* taken while an update pass is on the call stack.
InitReturnsInPass ==
    /\ InsidePass
    /\ Top.kind = "Controller.Init"
    /\ initDone' # initDone

\* Once ChangeScene was called in a pass, that pass runs no callback more
\* (the history of the call is kept until the host's next step).
NoUpdateAfterChange ==
    (cs.called /\ cs'.called) => log' = log

Released(s) ==
    /\ scenes[s].controllerObject = Nil
    /\ scenes[s].drawer = NilDrawer
    /\ scenes[s].objects = <<>>
    /\ scenes[s].addedObjects = <<>>

PassKinds == {"updateWithDelta", "draw"}
TreeKinds == {"Controller.Update", "Object.Update", "Drawer.Update",
              "Graphics.Draw", "Drawer.Draw"}

\* The callbacks on the stack of a Manager.Update or Manager.Draw call are
\* those of the scene the call started on: its controller, the objects of
\* its pass-start list, the graphics its drawer held when Draw started.
CallbacksOfPassScene ==
    (stack # <<>> /\ stack[1].kind \in PassKinds) =>
        \A k \in 2..Len(stack) :
            stack[k].kind \in TreeKinds =>
               /\ stack[k].scene = stack[1].scene
               /\ stack[k].kind = "Controller.Update" => stack[k].who = stack[1].scene
               /\ stack[k].kind = "Object.Update" => stack[k].who \in Range(passStart)
               /\ stack[k].kind = "Graphics.Draw" => stack[k].who \in Range(dhist.list)

\* Manager.Update and Manager.Draw start on the current scene, which is
\* not a disposed one; disposed scenes stay released.
StartsOnCurrent ==
    /\ (stack = <<>> /\ stack' # <<>> /\ stack'[1].kind \in PassKinds) =>
           /\ stack'[1].scene = currentScene
           /\ ~Released(currentScene)
    /\ \A s \in 1..Len(scenes) : Released(s) => Released(s)'

C14_PlainTeardown ==
    [][(/\ stack # <<>>
        /\ ~InsidePass
        /\ Top.kind = "Controller.Init"
        /\ initDone' # initDone)
          => (stack' = Pop /\ hostSaw' = NoPanic)]_vars
\* No ChangeScene call is in progress.
NoChangeInProgress ==
    \A k \in 1..Len(stack) : stack[k].kind # "Controller.Init"

\* C15: the Manager has no current scene before the first ChangeScene call
\* and one ever after: the scene made for the controller of the most
\* recent call, bound to that controller and not disposed.  When no
\* ChangeScene call is in progress, every other scene is disposed.
C15_OneCurrentScene ==
    /\ currentScene = Nil <=> scenes = <<>>
    /\ scenes # <<>> =>
          /\ currentScene = Len(scenes)
          /\ scenes[currentScene].controllerObject = currentScene
          /\ scenes[currentScene].drawer # NilDrawer
    /\ (Alive /\ NoChangeInProgress) =>
          \A s \in 1..(Len(scenes) - 1) : Released(s)

\* A pass of the first scene called ChangeScene, the Init of the second
\* controller called it again, and the Manager is back at the host with
\* the third scene.
C15_Witness ==
    /\ AtHost
    /\ outcome = "aborted"
    /\ passScene = 1
    /\ currentScene = 3
    /\ initDone = {1, 2, 3}
    /\ Released(1)
    /\ Released(2)
\* C16: in a draw pass of the default drawer that comes after an update
\* pass of its scene with no other draw pass in between, no graphics that
\* read disposed when the draw pass started is drawn, whether it became
\* disposed before that update or between the update and the draw: the
\* list the draw loop goes over was filtered first.
C16_LazyFiltering ==
    dhist.afterUpdate =>
        /\ Range(drawn) \cap dhist.disposed = {}
        /\ Range(dloop.arr) \cap dhist.disposed = {}

\* A draw pass that followed an update pass has drawn the second graphics
\* and left out the first, which read disposed when the pass started.
C16_Witness ==
    /\ AtHost
    /\ dhist.afterUpdate
    /\ dhist.list = <<1, 2>>
    /\ dhist.disposed = {1}
    /\ drawn = <<2>>
\* C17: in no draw pass of the default drawer is Draw called on a graphics
\* that read disposed when the pass started, whatever came before the pass.
C17_NoDisposedDrawn ==
    Range(drawn) \cap dhist.disposed = {}
Increasing(q) == \A j, k \in 1..Len(q) : j < k => q[j] < q[k]
LiveAtStart(g) == g \notin dhist.disposed
IsPrefix(a, b) == Len(a) <= Len(b) /\ a = SubSeq(b, 1, Len(a))

\* C18: the default drawer keeps its graphics in the order of the
\* AddGraphics calls (graphics are numbered in that order), and a draw pass
\* calls Draw in that order: the graphics drawn so far that were live when
\* the pass started are the first of the live ones of the list, and when
\* the pass is over they are all of them.  The layer index plays no part.
C18_InsertionOrder ==
    /\ \A s \in 1..Len(scenes) : Increasing(scenes[s].drawer.graphics)
    /\ Increasing(drawn)
    /\ IsPrefix(SelectSeq(drawn, LiveAtStart), SelectSeq(dhist.list, LiveAtStart))
    /\ AtHost => SelectSeq(drawn, LiveAtStart) = SelectSeq(dhist.list, LiveAtStart)

\* A finished draw pass drew the first graphics, added with layer 1, before
\* the second, added with layer 0.
C18_Witness ==
    /\ AtHost
    /\ drawn = <<1, 2>>
    /\ layerOf[1] = 1
    /\ layerOf[2] = 0
\* C19: a SetDrawer call on a scene whose default drawer holds graphics
\* panics and leaves the scene as it is; a SetDrawer call on a scene whose
\* default drawer holds none installs the new drawer.
C19_SwapRejected ==
    [][CallSetDrawer =>
          IF Len(scenes[Top.scene].drawer.graphics) > 0
          THEN hostSaw' # NoPanic /\ scenes' = scenes
          ELSE hostSaw' = NoPanic /\ scenes'[Top.scene].drawer = CustomDrawer]_vars
\* The time a Do call at the present clock reading adds to the leftover of
\* limiter l is enough for a frame.
EnoughTime(l) ==
    l.timeAccum + Min(Sub(now, l.prevDrawTime), l.drawDelay) >= l.drawDelay

\* C20: a Do call runs the draw function only if the limiter was dirty and,
\* with an fps cap, the leftover time with the time since the previous
\* call makes a frame interval; a call that does not draw does not clear
\* the surface; a call made while dirty is false draws nothing, clears
\* nothing and leaves the time accumulator and the last-call time as they
\* were.
C20_DoOnlyWhenDirtyAndDue ==
    /\ (stack # <<>> /\ Top.kind = "Limiter.draw") => (lastDo.called /\ lastDo.drew)
    /\ lastDo.called =>
          /\ lastDo.drew =>
                /\ lastDo.before.dirty
                /\ lastDo.before.drawDelay = 0 \/ EnoughTime(lastDo.before)
          /\ ~lastDo.drew => ~lastDo.cleared
          /\ ~lastDo.before.dirty =>
                /\ ~lastDo.drew
                /\ ~lastDo.cleared
                /\ stack = <<>>
                /\ limiter = lastDo.before

\* Do was called on a limiter of 30 fps that was not dirty, at a time when
\* a frame was due.
C20_Witness ==
    /\ lastDo.called
    /\ ~lastDo.before.dirty
    /\ lastDo.before.fps = 30
    /\ lastDo.before.prevDrawTime # ZeroTime
    /\ now > lastDo.before.prevDrawTime
    /\ EnoughTime(lastDo.before)

\* ------------------------------------------------------------------ C21
\* One frame at the configured rate.
FrameInterval(fps) == Second \div fps

\* A limiter constructed for 30 fps whose dirty flag has always been true
\* and whose Do has been called every Pace (8ms).
PacedAt30 ==
    /\ run.steady
    /\ run.paced
    /\ limiter.fps = 30

\* C21 as stated: in such a run two executions of the draw function are
\* never closer than one frame interval of 30 fps (33.3ms).
C21_OncePerFrameInterval ==
    (PacedAt30 /\ run.drawGap # ZeroTime) => run.drawGap >= FrameInterval(30)

\* C21, amended: with a limiter constructed for 30 fps, dirty always true
\* and Do called every 8ms, the draw function has run at most
\* 1 + floor(T / drawDelay) times when T has elapsed since the first Do
\* call, where drawDelay is Second / (fps + 1) (32.26ms), and two of its
\* runs are never closer than four Do calls (32ms).
C21_OncePerDrawDelay ==
    (PacedAt30 /\ run.first # ZeroTime) =>
        /\ limiter.drawDelay = Second \div 31
        /\ run.draws <= 1 + (now - run.first) \div limiter.drawDelay
        /\ run.drawGap # ZeroTime => run.drawGap >= 4 * Pace

C21_Witness ==
    /\ PacedAt30
    /\ run.draws = 3
    /\ run.drawGap = 4 * Pace
    /\ run.drawGap < FrameInterval(30)
    /\ run.lastCall - run.first = 9 * Pace
    /\ now = run.lastCall

C23_ClearsBeforeDraw ==
    (lastDo.called /\ lastDo.drew) => lastDo.cleared

\* ------------------------------------------------------------------ C24
\* C24: a Do call on a limiter whose fps is 0, made while dirty is true,
\* runs the draw function, however little time has passed since the call
\* before.
C24_NoCapAtZero ==
    (lastDo.called /\ lastDo.before.fps = 0 /\ lastDo.before.dirty) =>
        /\ lastDo.drew
        /\ lastDo.before.drawDelay = 0
        /\ limiter.timeAccum = lastDo.before.timeAccum
        /\ limiter.prevDrawTime = lastDo.before.prevDrawTime

\* Do has drawn at fps 0 at the very instant of the previous, capped, call.
C24_Witness ==
    /\ lastDo.called
    /\ lastDo.before.fps = 0
    /\ lastDo.before.dirty
    /\ lastDo.drew
    /\ lastDo.before.prevDrawTime = now
    /\ stack # <<>>
    /\ Top.kind = "Limiter.draw"

\* ------------------------------------------------------------------ C27
\* C27: for a limiter constructed with a non-zero fps whose dirty flag has
\* always been true and whose consecutive Do calls were never more than
\* one draw delay apart, when a Do call is made T after the first one the
\* draw function has run 1 + floor(T / drawDelay) times, and the leftover
\* is the rest of that division.
C27_CarryOver ==
    (run.steady /\ lastDo.called) =>
        /\ run.lastCall = now
        /\ run.draws = 1 + (now - run.first) \div limiter.drawDelay
        /\ limiter.timeAccum = (now - run.first) % limiter.drawDelay

\* The fourth draw of a run at 60 fps with calls 8ms and 16ms apart, made
\* with leftover time carried over from the draw before.
C27_Witness ==
    /\ run.steady
    /\ ~run.paced
    /\ lastDo.called
    /\ lastDo.drew
    /\ limiter.fps = 60
    /\ run.draws = 4
    /\ lastDo.before.timeAccum > 0
    /\ limiter.timeAccum > 0

\* ------------------------------------------------------------------ C25
\* A Manager.Update or Manager.Draw call made while there was no current
\* scene has failed: the caller has the runtime error, nothing runs, no
\* pass and no draw has started and the Manager still has no scene.
NoSceneFails ==
    (currentScene = Nil /\ frame # "none") =>
        /\ hostSaw = RuntimeError
        /\ stack = <<>>
        /\ scenes = <<>>
        /\ passNo = 0
        /\ drawNo = 0

\* A pass or a draw that starts is the current scene's, and starting it
\* does not change which scene is current; a failure that appears while
\* there is no scene is a runtime error and leaves the Manager as it was.
DelegatesToCurrent ==
    /\ (passNo' # passNo) =>
           /\ currentScene # Nil
           /\ currentScene' = currentScene
           /\ passScene' = currentScene
           /\ stack'[1] = Frame("updateWithDelta", currentScene, Nil, Nil)
    /\ (drawNo' # drawNo) =>
           /\ currentScene # Nil
           /\ currentScene' = currentScene
           /\ dhist'.scene = currentScene
           /\ stack'[1] = Frame("draw", currentScene, Nil, Nil)
    /\ (currentScene = Nil /\ hostSaw' # hostSaw) =>
           /\ hostSaw' = RuntimeError
           /\ currentScene' = Nil
           /\ scenes' = scenes

\* C25: Manager.Update and Manager.Draw hand the call to the current
\* scene: the pass or the draw that starts is the current scene's, and
\* the call does not change which scene is current.  Called while there
\* is no current scene they fail with a runtime error that reaches the
\* caller; no pass and no draw starts and the Manager still has no scene.
C25_Delegation == []NoSceneFails /\ [][DelegatesToCurrent]_vars

\* Manager.Draw was called before any ChangeScene and failed.
C25_Witness ==
    /\ currentScene = Nil
    /\ frame = "draw"
    /\ hostSaw = RuntimeError
    /\ scenes = <<>>

\* ------------------------------------------------------------------ C26
\* The step that completes a pass leaves the scene of the pass with the
\* pass-start list without the objects that read disposed at their turn,
\* in its order, followed by the add-queue as it was before the flush,
\* which is in AddObject order and holds every object added in the pass;
\* the add-queue is empty.
FlushesOntoSurvivors ==
    (outcome = "running" /\ outcome' = "completed") =>
        LET before == scenes[passScene]
            after  == scenes'[passScene]
        IN /\ skipped' = skipped
           /\ after.objects = SelectSeq(passStart, NotSkipped) \o before.addedObjects
           /\ after.addedObjects = <<>>
           /\ Increasing(before.addedObjects)
           /\ \A o \in Range(passStart) : NotSkipped(o) => o \in Range(after.objects)
           /\ Range(passStart) \cap Range(before.addedObjects) = {}

\* C26: after every completed update pass the active list is the
\* pass-start list with exactly the objects that read disposed at their
\* turn removed, the others in unchanged order, followed by the objects of
\* the add-queue in the order they were added, and the add-queue is empty.
C26_ListAfterPass == [][FlushesOntoSurvivors]_vars

\* A pass over two objects has completed: one read disposed at its turn,
\* the other survived, and the object added meanwhile follows it.
C26_Witness ==
    /\ outcome = "completed"
    /\ AtHost
    /\ Len(passStart) = 2
    /\ Cardinality(skipped) = 1
    /\ Len(scenes[passScene].objects) = 2
    /\ scenes[passScene].objects[1] \in Range(passStart) \ skipped
    /\ scenes[passScene].objects[2] \notin Range(passStart)
    /\ scenes[passScene].addedObjects = <<>>

\* ------------------------------------------------------------------ C29
\* A step that changes the Manager's disposal flag sets it and changes
\* nothing else: the current scene stays installed and undisposed, and no
\* call in progress is disturbed.  A set flag stays set.
OnlyDisposeSetsFlag ==
    /\ disposed => disposed'
    /\ (disposed' # disposed) =>
           /\ ~disposed
           /\ disposed'
           /\ UNCHANGED <<currentScene, scenes, stack, hostSaw, passNo, drawNo, frame>>
           /\ currentScene # Nil => SceneAlive(currentScene)'

\* C29: IsDisposed reports false until Manager.Dispose is called and true
\* ever after; Dispose changes nothing but the flag, so the current scene
\* stays installed and undisposed; ChangeScene, Update and Draw never
\* change the flag.
C29_DisposeOnlySetsFlag ==
    /\ [](ManagerIsDisposed \in BOOLEAN)
    /\ [][OnlyDisposeSetsFlag]_vars

\* After Dispose the scene was changed, updated and drawn: the flag is
\* set and the current scene is in use.
C29_Witness ==
    /\ ManagerIsDisposed
    /\ AtHost
    /\ currentScene = 2
    /\ SceneAlive(currentScene)
    /\ outcome = "completed"
    /\ passScene = currentScene
    /\ drawNo >= 1
    /\ dhist.scene = currentScene

\* ------------------------------------------------------------------ C30
\* The Update calls of the objects in the log of the pass.
ObjectUpdates == SelectSeq(log, IsUpdateOf)

\* A pass traverses the list it found when it started, whatever is added
\* meanwhile: the Update calls are calls on objects of that list, one per
\* object at most, so no more of them than the list was long.
BoundedPass ==
    /\ NoDup(ObjectUpdates)
    /\ \A j \in 1..Len(ObjectUpdates) : ObjectUpdates[j].id \in Range(passStart)
    /\ Len(ObjectUpdates) <= Len(passStart)
    /\ (outcome = "running" /\ loop.pc = "objects") =>
           /\ Len(loop.arr) = Len(passStart)
           /\ loop.i <= Len(passStart) + 1

ReachedLive(g) == g \notin dloop.skipped
RootLiveUpTo(k) == SelectSeq(SubSeq(dhist.list, 1, k), ReachedLive)

\* The number of graphics of the pass-start list whose turn has come.
RootTurnsDone ==
    IF dloop.pc # "root" THEN Len(dhist.list)
    ELSE IF InRootCallback THEN dloop.i
    ELSE dloop.i - 1

\* The list is in AddGraphics order; the graphics drawn so far are the
\* ones reached so far that did not read disposed at their turn, in list
\* order; once the pass is over the list starts with the graphics drawn
\* and holds none of those skipped.
FiltersWhileDrawing ==
    /\ Increasing(root.graphics)
    /\ drawNo >= 1 =>
          /\ drawn = RootLiveUpTo(RootTurnsDone)
          /\ Increasing(drawn)
          /\ \A g \in dloop.skipped : gDisposed[g]
          /\ dloop.pc # "root" =>
                /\ IsPrefix(drawn, root.graphics)
                /\ Range(root.graphics) \cap dloop.skipped = {}

\* A graphics whose Draw is entered does not report disposed, and the
\* step that ends a pass leaves in the list exactly the graphics drawn.
DrawsLiveOnly ==
    /\ (Len(drawn') = Len(drawn) + 1) => ~gDisposed[drawn'[Len(drawn')]]
    /\ (dloop.pc = "root" /\ dloop'.pc # "root") => root'.graphics = drawn

\* C28: RootScene.Draw filters while it draws: a graphics that reports
\* disposed when the loop reaches it is not drawn and is not in the list
\* afterwards; the others are drawn in AddGraphics order and stay in the
\* list in that order, so that every later pass draws them in it too.
C28_FilterWhileDrawing == []FiltersWhileDrawing /\ [][DrawsLiveOnly]_vars

\* The second pass has skipped the first graphics, disposed after the
\* first pass drew it, and has drawn the one after it.
C28_Witness ==
    /\ AtHost
    /\ drawNo = 2
    /\ dhist.list = <<1, 2>>
    /\ dhist.disposed = {1}
    /\ dloop.skipped = {1}
    /\ drawn = <<2>>
    /\ root.graphics = <<2>>

\* ------------------------------------------------------------------ C31
UpdateKinds == {"Controller.Update", "Object.Update", "Drawer.Update"}

\* The Update callbacks of a Manager.Update call are those of the scene the
\* call started on, also after a ChangeScene call inside the pass: the
\* scenes made by such calls are in no pass and have an empty active list.
OneScenePerUpdate ==
    /\ \A j \in 1..Len(log) :
          /\ log[j].ev = "Controller.Update" => log[j].id = passScene
          /\ log[j].ev = "Object.Update" => log[j].id \in Range(passStart)
    /\ \A k \in 1..Len(stack) :
          /\ stack[k].kind = "updateWithDelta" => (k = 1 /\ stack[k].scene = passScene)
          /\ (stack[k].kind \in UpdateKinds /\ stack[1].kind = "updateWithDelta") =>
                 stack[k].scene = passScene
    /\ cs.called =>
          \A c \in cs.ctrls :
              /\ c # passScene
              /\ scenes[c].objects = <<>>
              /\ ~scenes[c].insideUpdate
    /\ (outcome = "aborted" /\ stack = <<>>) =>
          /\ cs.called
          /\ currentScene \in cs.ctrls

\* The Manager.Update call that follows an aborted pass starts the first
\* pass of the scene that is current now, with an empty active list and
\* the add-queue as the Init of its controller left it.  An add-queue
\* loses objects only in the flush of a completed pass of its scene or
\* when the scene is disposed.
FirstPassIsTheNextCall ==
    /\ (outcome = "aborted" /\ passNo' # passNo) =>
           /\ passScene' = currentScene
           /\ passScene' # passScene
           /\ passStart' = <<>>
           /\ log' = <<Ev("Controller.Update", currentScene)>>
           /\ scenes'[currentScene].addedObjects = scenes[currentScene].addedObjects
    /\ \A s \in 1..Len(scenes) :
           \/ IsPrefix(scenes[s].addedObjects, scenes'[s].addedObjects)
           \/ outcome = "running" /\ outcome' = "completed" /\ passScene = s
           \/ Released(s)'

\* C31: one Manager.Update call runs the pass of one scene.  When
\* ChangeScene is called inside the pass of scene A, the new scene B gets
\* no Controller.Update, Object.Update or drawer Update in that call; the
\* first pass of B is the next Manager.Update call, and the objects that
\* the Init of B's controller added are in B's add-queue, not in its
\* active list, when that pass starts.
C31_OneScenePerUpdate == []OneScenePerUpdate /\ [][FirstPassIsTheNextCall]_vars

\* Manager.Update has returned from a pass of the first scene in which an
\* object's Update changed the scene; the second scene is current and the
\* object its controller's Init added waits in its add-queue.
C31_Witness ==
    /\ outcome = "aborted"
    /\ stack = <<>>
    /\ hostSaw = NoPanic
    /\ passScene = 1
    /\ currentScene = 2
    /\ cs.from = "Object.Update"
    /\ Len(log) >= 2
    /\ scenes[2].objects = <<>>
    /\ scenes[2].addedObjects # <<>>

\* ------------------------------------------------------------------ C32
\* The objects of the pass-start list that the loop has not dropped.
NotYetRemoved == SelectSeq(passStart, NotSkipped)

\* C32: when a failure of a callback has ended an update pass and reached
\* the host, the scene of the pass is not marked as inside an update, its
\* active list holds every object the loop has not removed, once and in
\* insertion order, and its add-queue holds what was added.
C32_ConsistentAfterFailure ==
    (outcome = "failed" /\ stack = <<>> /\ SceneAlive(passScene)) =>
        /\ ~scenes[passScene].insideUpdate
        /\ scenes[passScene].objects = NotYetRemoved
        /\ NoDup(scenes[passScene].addedObjects)

\* ------------------------------------------------------------------ C33
\* A draw pass of the default drawer is on the call stack.
InDrawPass ==
    /\ stack # <<>>
    /\ stack[1].kind = "draw"
    /\ dloop.pc = "graphics"

\* The number of graphics of the running draw pass whose Draw was entered.
DrawTurns ==
    IF Len(stack) = 1 THEN dloop.i - 1 ELSE dloop.i

\* A draw pass draws the graphics of the list its loop ranges over, one
\* after the other, whether or not its scene is still the current one.
DrawPassGoesOn ==
    InDrawPass => drawn = SubSeq(dloop.arr, 1, DrawTurns)

\* The step in which the Init of a new controller returns into a
\* ChangeScene call made inside a draw pass: the call returns to the Draw
\* callback that made it, the scene before is released, the new scene
\* stays current and the loop of the pass is as it was.  A draw pass ends
\* only when all its graphics were drawn or a callback failed.
ChangeSceneInDraw ==
    /\ (InDrawPass /\ Top.kind = "Controller.Init" /\ initDone' # initDone) =>
           /\ stack' = Pop
           /\ hostSaw' = NoPanic
           /\ dloop' = dloop
           /\ drawn' = drawn
           /\ currentScene' = currentScene
           /\ currentScene # Top.prev
           /\ \A p \in {Top.prev} : Released(p)'
    /\ (InDrawPass /\ stack' = <<>>) =>
           \/ raised' # raised
           \/ drawn = dloop.arr /\ hostSaw' = NoPanic
    /\ (InDrawPass /\ stack' # <<>>) => dloop'.arr = dloop.arr

\* C33: ChangeScene called from a Graphics.Draw callback raises no unwind
\* signal and does not abort the draw pass: the new scene is installed,
\* the references of the scene before are released, and the graphics the
\* pass has not reached yet are still drawn in it.
C33_DrawPassNotAborted == []DrawPassGoesOn /\ [][ChangeSceneInDraw]_vars

\* ------------------------------------------------------------------ C34
\* The graphics that were registered with AddGraphics on the root scene and
\* do not report disposed.
LiveRegistered == {g \in 1..nGraphics : ~gDisposed[g]}

\* Between two frames every live registered graphics is in the list of its
\* scene, and the draw pass that ended last has drawn every graphics of the
\* list it started with that is live.
StaysRegisteredAndDrawn ==
    (AtHost /\ root.made) =>
        /\ LiveRegistered \subseteq Range(root.graphics)
        /\ drawNo > 0 =>
               (Range(dhist.list) \cap LiveRegistered) \subseteq Range(drawn)

\* C34: no live graphics is ever lost: a graphics registered with
\* AddGraphics that has not reported disposed remains registered and is
\* drawn in every later draw pass of its scene, for any interleaving of
\* AddGraphics and Draw, AddGraphics from inside a Graphics.Draw callback
\* of a running draw pass included.
C34_NoLiveGraphicsLost == StaysRegisteredAndDrawn
====
